---------------------------- MODULE Spec2Model ----------------------------
(***************************************************************************)
(* A model of three routines of pyspedas:                                  *)
(*   elfin_load_epd       (pyspedas/elfin/epd/epd.py)                      *)
(*   mms_get_local_files  (pyspedas/mms/mms_get_local_files.py)            *)
(*   mms_get_state_data   (pyspedas/mms/mec_ascii/mms_get_state_data.py)   *)
(* Each routine has its own variables and its own specification; the       *)
(* variables of the other routines stay at their initial values.           *)
(***************************************************************************)
EXTENDS Integers, Sequences, FiniteSets, TLC

(***************************************************************************)
(* Bounds of the model.                                                    *)
(***************************************************************************)
\* longest list of tplot variables returned by load()
MaxTvars == 2
\* the days of the model are 0..MaxDay
MaxDay == 2
\* days per month of the model's calendar
DaysPerMonth == 2
\* most files under the local data directory
MaxLocalFiles == 1
\* the days of the ancillary files and of their requests are 0..MaxEphDay
MaxEphDay == 1
\* most files in a listing of the server
MaxListing == 2

(***************************************************************************)
(* Time.                                                                   *)
(***************************************************************************)
\* 60*60*24
SecondsPerDay == 86400
\* the times of day (seconds) a date/time of the model may have
TimesOfDay == {0, 1}

(***************************************************************************)
(* The state: one group of variables per routine.                          *)
(***************************************************************************)
\* elfin_load_epd
VARIABLES
    e_pc,            \* "idle" before the first call, "done" after a call
    e_level,         \* parameter level
    e_type,          \* parameter type_
    e_notplot,       \* parameter notplot
    e_downloadonly,  \* parameter downloadonly
    e_fullspin,      \* parameter fullspin, a Python value
    e_tvars,         \* the value load() returned
    e_data_nan,      \* whether get_data(tvars_32[0]).y holds only NaN
    e_post,          \* the postprocessing call made, if any
    e_result,        \* how the call ended
    e_prev           \* tvars_input of the previous call with these inputs

epdVars == <<e_pc, e_level, e_type, e_notplot, e_downloadonly, e_fullspin,
             e_tvars, e_data_nan, e_post, e_result, e_prev>>

\* mms_get_local_files
VARIABLES
    lf_pc,           \* "idle" before the call, "done" after it
    lf_trange,       \* parameter trange: two date/times
    lf_data_rate,    \* parameter data_rate
    lf_fs,           \* the files under CONFIG['local_data_dir']
    lf_files_out,    \* files_out
    lf_local_files   \* the list returned

lfVars == <<lf_pc, lf_trange, lf_data_rate, lf_fs, lf_files_out, lf_local_files>>

\* mms_get_state_data
VARIABLES
    sd_pc,                \* "idle", "loop", "files", "done" or "raised"
    sd_trange,            \* parameter trange: two date/times
    sd_level,             \* parameter level
    sd_no_download,       \* parameter no_download
    sd_download_only,     \* CONFIG['download_only']
    sd_times,             \* start_time, end_time, endtime_day and the two date strings
    sd_filetypes,         \* filetypes
    sd_ft,                \* position of the loop over filetypes
    sd_query,             \* the file_info query of this filetype
    sd_http_json,         \* http_json['files'] of this filetype
    sd_files_in_interval, \* files_in_interval
    sd_idx,               \* position of the loop over files_in_interval
    sd_out_files,         \* out_files
    sd_local,             \* what is known of the files of out_dir, by file name
    sd_events,            \* what was done for the files of this filetype, in order
    sd_loaded             \* the mms_load_*_tplot call of this filetype

sdVars == <<sd_pc, sd_trange, sd_level, sd_no_download, sd_download_only,
            sd_times, sd_filetypes, sd_ft, sd_query, sd_http_json,
            sd_files_in_interval, sd_idx, sd_out_files, sd_local, sd_events,
            sd_loaded>>

vars == <<epdVars, lfVars, sdVars>>

(***************************************************************************)
(* Helpers on sequences.                                                   *)
(***************************************************************************)
\* the elements of a sequence
Range(s) == {s[i] : i \in 1..Len(s)}

\* all sequences over S of length at most n
SeqsUpTo(S, n) == UNION {[1..k -> S] : k \in 0..n}

\* all subsets of S with at most n elements
SetsUpTo(S, n) == {Range(q) : q \in SeqsUpTo(S, n)}

\* all enumerations of the finite set S, each element once
Perms(S) == {p \in [1..Cardinality(S) -> S] : Range(p) = S}

(***************************************************************************)
(*                      elfin_load_epd  (epd.py)                           *)
(***************************************************************************)
\* Python values a caller may pass for a flag documented as bool
PyValues == {"True", "False", "None", "0"}

\* `x is False`
IsFalse(x) == x = "False"

Levels == {"l1", "l2", "l3"}
Types == {"raw", "cps", "nflux", "eflux", "cal", "calibrated", "counts"}

\* A tplot variable name is a sequence of pieces; "_32" is the piece the
\* code searches for.
TvarNames == {<<"ela_pef">>, <<"ela_pef", "_32">>, <<"ela_pos">>, <<"ela_att">>}

\* '_32' in tvar
Has32(tvar) == \E i \in 1..Len(tvar) : tvar[i] = "_32"

\* tvar.replace('_32', '')
Replace32(tvar) == SelectSeq(tvar, LAMBDA piece : piece # "_32")

CALIBRATED_TYPE_UNITS ==
    [t \in {"raw", "cps", "nflux", "eflux"} |->
        CASE t = "raw"   -> "counts/sector"
          [] t = "cps"   -> "counts/s"
          [] t = "nflux" -> "#/(s-cm$^2$-str-MeV)"
          [] t = "eflux" -> "keV/(s-cm$^2$-str-MeV)"]

\* the guard of the two early returns: notplot or downloadonly, or not tvars
\* (variant: returns early only when both flags are set)
MutEarlyReturn(notplot, downloadonly, tvars) ==
    (notplot /\ downloadonly) \/ tvars = <<>>
EarlyReturn(notplot, downloadonly, tvars) ==
    notplot \/ downloadonly \/ tvars = <<>>

\* type_ after the replacement of unknown types by 'nflux'
\* (variant: only 'cal' and 'calibrated' are replaced)
MutCalibratedType(type_) ==
    IF type_ \in {"cal", "calibrated"} THEN "nflux" ELSE type_
CalibratedType(type_) ==
    IF type_ \in {"cal", "calibrated"} \/ type_ \notin DOMAIN CALIBRATED_TYPE_UNITS
    THEN "nflux" ELSE type_

\* the branch taken on level
\* (variant: every level but l1 is handled as l2)
MutLevelBranch(level) ==
    IF level = "l1" THEN "l1" ELSE "l2"
LevelBranch(level) ==
    CASE level = "l1" -> "l1"
      [] level = "l2" -> "l2"
      [] OTHER        -> "unknown"

\* fluxtype at level l2: only nflux and eflux are allowed
L2FluxType(type_) == IF type_ \notin {"nflux", "eflux"} THEN "nflux" ELSE type_

\* res = 'hs' if fullspin is False else 'fs'
Res(fullspin) == IF IsFalse(fullspin) THEN "hs" ELSE "fs"

\* tvars_32, tvars_16 and the set behind tvars_other
Tvars32(tvars) == SelectSeq(tvars, Has32)
Tvars16(tvars) == [i \in 1..Len(Tvars32(tvars)) |-> Replace32(Tvars32(tvars)[i])]
TvarsOtherSet(tvars) ==
    (Range(tvars) \ Range(Tvars32(tvars))) \ Range(Tvars16(tvars))

\* tvars_input, given the order in which list(set(...)) enumerated the set
TvarsInput(tvars, tvars_other, data_nan) ==
    IF Len(Tvars32(tvars)) # 0 /\ ~data_nan
    THEN tvars_other \o Tvars32(tvars)
    ELSE tvars_other \o Tvars16(tvars)

NoPost == [fn |-> "none"]

\* The body of elfin_load_epd after load() returned tvars; tvars_other is the
\* enumeration of the set of remaining variables this run produced.
ElfinBody(level, type_, notplot, downloadonly, fullspin, tvars, data_nan, tvars_other) ==
    IF EarlyReturn(notplot, downloadonly, tvars)
    THEN /\ e_post' = NoPost
         /\ e_result' = [kind |-> "return", from |-> "load", value |-> tvars]
    ELSE LET t == CalibratedType(type_) IN
         CASE LevelBranch(level) = "l1" ->
                IF t \in DOMAIN CALIBRATED_TYPE_UNITS
                THEN /\ e_post' = [fn |-> "epd_l1_postprocessing", tvars |-> tvars,
                                   type_ |-> t, unit |-> CALIBRATED_TYPE_UNITS[t]]
                     /\ e_result' = [kind |-> "return", from |-> "epd_l1_postprocessing"]
                ELSE /\ e_post' = NoPost
                     /\ e_result' = [kind |-> "raise", exc |-> "KeyError"]
           [] LevelBranch(level) = "l2" ->
                /\ e_post' = [fn |-> "epd_l2_postprocessing",
                              tvars_input |-> TvarsInput(tvars, tvars_other, data_nan),
                              fluxtype |-> L2FluxType(t), res |-> Res(fullspin)]
                /\ e_result' = [kind |-> "return", from |-> "epd_l2_postprocessing"]
           [] OTHER ->
                /\ e_post' = NoPost
                /\ e_result' = [kind |-> "raise", exc |-> "ValueError"]

\* a call of elfin_load_epd
ElfinLoadEpd ==
    /\ e_pc = "idle"
    /\ \E level \in Levels, type_ \in Types, notplot \in BOOLEAN,
          downloadonly \in BOOLEAN, fullspin \in PyValues,
          tvars \in SeqsUpTo(TvarNames, MaxTvars), data_nan \in BOOLEAN :
       \E tvars_other \in Perms(TvarsOtherSet(tvars)) :
        /\ e_pc' = "done"
        /\ e_level' = level
        /\ e_type' = type_
        /\ e_notplot' = notplot
        /\ e_downloadonly' = downloadonly
        /\ e_fullspin' = fullspin
        /\ e_tvars' = tvars
        /\ e_data_nan' = data_nan
        /\ e_prev' = NoPost
        /\ ElfinBody(level, type_, notplot, downloadonly, fullspin, tvars,
                     data_nan, tvars_other)
    /\ UNCHANGED <<lfVars, sdVars>>

\* a second call with the parameters, the load() result and the data of the
\* call before
ElfinLoadEpdAgain ==
    /\ e_pc = "done"
    /\ \E tvars_other \in Perms(TvarsOtherSet(e_tvars)) :
        /\ e_prev' = e_post
        /\ ElfinBody(e_level, e_type, e_notplot, e_downloadonly, e_fullspin,
                     e_tvars, e_data_nan, tvars_other)
    /\ e_pc' = "again"
    /\ UNCHANGED <<e_level, e_type, e_notplot, e_downloadonly, e_fullspin,
                   e_tvars, e_data_nan>>
    /\ UNCHANGED <<lfVars, sdVars>>

EpdInit ==
    /\ e_pc = "idle"
    /\ e_level = "l1"
    /\ e_type = "nflux"
    /\ e_notplot = FALSE
    /\ e_downloadonly = FALSE
    /\ e_fullspin = "False"
    /\ e_tvars = <<>>
    /\ e_data_nan = FALSE
    /\ e_post = NoPost
    /\ e_result = [kind |-> "none"]
    /\ e_prev = NoPost

(***************************************************************************)
(*                 mms_get_local_files  (mms_get_local_files.py)           *)
(***************************************************************************)
\* A date/time string is a day number and the seconds into that day.
Days == 0..MaxDay
DateTimes == [day : Days, sec : TimesOfDay]

\* dateutil's parse of a date/time string: seconds since day 0
Parse(dt) == dt.day * SecondsPerDay + dt.sec

\* parse(parse(s).strftime('%Y-%m-%d')): strftime keeps the day only
StartOfDay(dt) == (Parse(dt) \div SecondsPerDay) * SecondsPerDay

\* The timestamp of a file name: 8 digits (a day) or 14 digits (a day and a
\* time of day); dateutil's parse of either.
Stamps == {<<d>> : d \in Days} \cup {<<d, s>> : d \in Days, s \in TimesOfDay \ {0}}
ParseStamp(stamp) ==
    IF Len(stamp) = 1 THEN stamp[1] * SecondsPerDay
    ELSE stamp[1] * SecondsPerDay + stamp[2]

\* the calendar of the model: the month a day belongs to
MonthOf(d) == d \div DaysPerMonth

\* The directories below spacecraft/instrument/rate/level: year/month for
\* srvy data, year/month/day for brst data.
Dirs == {<<MonthOf(d)>> : d \in Days} \cup {<<MonthOf(d), d>> : d \in Days}

\* A file: its directory and its name; a name is the product prefix
\* (that of the request, or another product's) and the timestamp.
Files == [dir : Dirs, prefix : {"requested"}, stamp : Stamps]
         \cup [dir : Dirs, prefix : {"other"}, stamp : {<<0>>}]

\* local_dir of one day of the range
LocalDir(date, data_rate) ==
    LET d == date \div SecondsPerDay IN
    IF data_rate = "brst" THEN <<MonthOf(d), d>> ELSE <<MonthOf(d)>>

\* regex.match(this_file): the directory, then the file-name pattern
RegexMatch(file, local_dir) == file.dir = local_dir /\ file.prefix = "requested"

\* rrule(DAILY, dtstart=start of trange[0]'s day, until=trange[1] - 1 second)
RRuleDays(trange) ==
    LET dtstart == StartOfDay(trange[1])
        until == Parse(trange[2]) - 1
        n == IF until < dtstart THEN 0
             ELSE (until - dtstart) \div SecondsPerDay + 1
    IN [k \in 1..n |-> dtstart + (k - 1) * SecondsPerDay]

\* the test on this_time before a file is appended to files_out
\* (variant: the upper end of the window is trange[1] itself)
MutInWindow(this_time, trange) ==
    this_time >= StartOfDay(trange[1]) /\ this_time <= Parse(trange[2])
InWindow(this_time, trange) ==
    this_time >= StartOfDay(trange[1]) /\ this_time <= Parse(trange[2]) - 1

\* the files one pass of os.walk appends for one day of the range; an entry
\* is never found in files_out (a path is compared with dicts), so every
\* match is appended
AppendedForDay(walk, date, data_rate, trange) ==
    SelectSeq(walk, LAMBDA file :
        /\ RegexMatch(file, LocalDir(date, data_rate))
        /\ InWindow(ParseStamp(file.stamp), trange))

RECURSIVE FilesOut(_, _, _, _)
FilesOut(walk, days, data_rate, trange) ==
    IF days = <<>> THEN <<>>
    ELSE AppendedForDay(walk, Head(days), data_rate, trange)
         \o FilesOut(walk, Tail(days), data_rate, trange)

\* file_name of an entry
FileName(file) == <<file.prefix, file.stamp>>

\* mms_files_in_interval keeps some of the entries it is given
FilesInInterval(files_out) == SUBSET Range(files_out)

\* a call of mms_get_local_files
MmsGetLocalFiles ==
    /\ lf_pc = "idle"
    /\ \E t0 \in DateTimes, t1 \in DateTimes, data_rate \in {"srvy", "brst"},
          fs \in SetsUpTo(Files, MaxLocalFiles) :
       \E walk \in Perms(fs) :
         LET trange == <<t0, t1>>
             files_out == FilesOut(walk, RRuleDays(trange), data_rate, trange)
         IN \E files_in_interval \in FilesInInterval(files_out) :
              LET file_names == {FileName(f) : f \in files_in_interval} IN
              /\ lf_trange' = trange
              /\ lf_data_rate' = data_rate
              /\ lf_fs' = fs
              /\ lf_files_out' = files_out
              /\ lf_local_files' =
                    SelectSeq(files_out, LAMBDA f : FileName(f) \in file_names)
    /\ lf_pc' = "done"
    /\ UNCHANGED <<epdVars, sdVars>>

LfInit ==
    /\ lf_pc = "idle"
    /\ lf_trange = <<[day |-> 0, sec |-> 0], [day |-> 0, sec |-> 0]>>
    /\ lf_data_rate = "srvy"
    /\ lf_fs = {}
    /\ lf_files_out = <<>>
    /\ lf_local_files = <<>>

(***************************************************************************)
(*            mms_get_state_data  (mec_ascii/mms_get_state_data.py)        *)
(***************************************************************************)
EphDays == 0..MaxEphDay
EphDateTimes == [day : EphDays, sec : TimesOfDay]

\* time_double of a date/time string: seconds since day 0
TimeDouble(dt) == dt.day * SecondsPerDay + dt.sec

\* time_string(t, fmt='%Y-%m-%d'): the calendar day of t
TimeString(t) == t \div SecondsPerDay

\* time_double of a '%Y-%m-%d' string
TimeDoubleOfDate(d) == d * SecondsPerDay

\* the time ranges of the model: the start is not after the end
TimeRanges ==
    {r \in EphDateTimes \X EphDateTimes : TimeDouble(r[1]) <= TimeDouble(r[2])}

\* add_day: a day is added when the end is not at 00:00:00
\* (variant: a day is added at 00:00:00 too)
MutAddDay(end_time, endtime_day) ==
    IF end_time >= endtime_day THEN SecondsPerDay ELSE 0
AddDay(end_time, endtime_day) ==
    IF end_time > endtime_day THEN SecondsPerDay ELSE 0

\* lines 29-45
Times(trange) ==
    LET start_time == TimeDouble(trange[1]) - SecondsPerDay
        end_time == TimeDouble(trange[2])
        endtime_day == TimeDoubleOfDate(TimeString(TimeDouble(trange[2])))
    IN [start_time |-> start_time,
        end_time |-> end_time,
        endtime_day |-> endtime_day,
        start_time_str |-> TimeString(start_time),
        end_time_str |-> TimeString(end_time + AddDay(end_time, endtime_day))]

\* filetypes, from datatypes
FileTypes(datatypes) ==
    (IF "pos" \in datatypes \/ "vel" \in datatypes THEN <<"eph">> ELSE <<>>)
    \o (IF "spinras" \in datatypes \/ "spindec" \in datatypes THEN <<"att">> ELSE <<>>)

\* An entry of the server's listing. The name of an ancillary file carries
\* the days it covers; the listed size is the same for every file of the model.
ListedFiles ==
    {[file_name |-> <<p[1], p[2]>>, start_date |-> p[1], end_date |-> p[2],
      file_size |-> 100] : p \in {q \in EphDays \X EphDays : q[1] <= q[2]}}

\* the listings a query may return: distinct files, in any order
Listings ==
    {l \in SeqsUpTo(ListedFiles, MaxListing) : Cardinality(Range(l)) = Len(l)}

\* the selection of lines 85-96 for a level other than 'def': the loop ends
\* at the first file it appends
\* (variant: files that start after the range are not removed)
MutFirstInInterval(files, start_time, endtime_day) ==
    IF \E i \in 1..Len(files) : ~(start_time > TimeDoubleOfDate(files[i].end_date))
    THEN <<files[CHOOSE i \in 1..Len(files) :
                /\ ~(start_time > TimeDoubleOfDate(files[i].end_date))
                /\ \A j \in 1..(i - 1) :
                      start_time > TimeDoubleOfDate(files[j].end_date)]>>
    ELSE <<>>
RECURSIVE FirstInInterval(_, _, _)
FirstInInterval(files, start_time, endtime_day) ==
    IF files = <<>> THEN <<>>
    ELSE IF TimeDoubleOfDate(Head(files).start_date) > endtime_day
         THEN FirstInInterval(Tail(files), start_time, endtime_day)
    ELSE IF start_time > TimeDoubleOfDate(Head(files).end_date)
         THEN FirstInInterval(Tail(files), start_time, endtime_day)
    ELSE <<Head(files)>>

\* files_in_interval
FilesToLoad(level, files, start_time, endtime_day) ==
    IF level # "def" THEN FirstInInterval(files, start_time, endtime_day)
    ELSE files

\* What out_dir holds under one file name.
NoFile == [exists |-> FALSE, size |-> 0, body |-> "none"]
Unknown == [exists |-> FALSE, size |-> 0, body |-> "unknown"]
LocalStates ==
    {NoFile, [exists |-> TRUE, size |-> 100, body |-> "earlier"],
             [exists |-> TRUE, size |-> 200, body |-> "earlier"]}

\* str(n) of a size: its decimal digits, most significant first
RECURSIVE Str(_)
Str(n) == IF n < 10 THEN <<n>> ELSE Str(n \div 10) \o <<n % 10>>

\* os.path.exists(out_file) and str(os.stat(out_file).st_size) == str(file['file_size'])
\* (variant: the size is not compared)
MutUpToDate(found, file) == found.exists
UpToDate(found, file) == found.exists /\ Str(found.size) = Str(file.file_size)

\* How a download may end: the file arrives; the server answers with an
\* error response, whose body is what the stream holds; the transfer raises.
DownloadOutcomes == {"ok", "error_response", "transfer_failure"}

\* what copy() writes to out_file
Copied(outcome, file) ==
    IF outcome = "ok"
    THEN [exists |-> TRUE, size |-> file.file_size, body |-> "download"]
    ELSE [exists |-> TRUE, size |-> 200, body |-> "error_page"]

\* sorted(out_files), by insertion
NameLess(a, b) == a[1] < b[1] \/ (a[1] = b[1] /\ a[2] < b[2])
RECURSIVE Sorted(_)
Sorted(names) ==
    IF names = <<>> THEN <<>>
    ELSE LET rest == Sorted(Tail(names))
             x == Head(names)
         IN SelectSeq(rest, LAMBDA y : NameLess(y, x)) \o <<x>>
            \o SelectSeq(rest, LAMBDA y : ~NameLess(y, x))

NoQuery == [product |-> "none"]
NoLoad == [fn |-> "none"]
NothingKnown == [n \in {f.file_name : f \in ListedFiles} |-> Unknown]

\* the values of datatypes the model calls with
Datatypes == {{"pos", "vel"}, {}}

\* lines 24-57: the call, up to the loop over filetypes
MmsGetStateData ==
    /\ sd_pc = "idle"
    /\ \E trange \in TimeRanges, level \in {"def", "pred"},
          no_download \in BOOLEAN, download_only \in BOOLEAN,
          datatypes \in Datatypes :
        /\ sd_trange' = trange
        /\ sd_level' = level
        /\ sd_no_download' = no_download
        /\ sd_download_only' = download_only
        /\ sd_times' = Times(trange)
        /\ sd_filetypes' = FileTypes(datatypes)
    /\ sd_ft' = 1
    /\ sd_pc' = "loop"
    /\ UNCHANGED <<sd_query, sd_http_json, sd_files_in_interval, sd_idx,
                   sd_out_files, sd_local, sd_events, sd_loaded>>
    /\ UNCHANGED <<epdVars, lfVars>>

\* lines 59-96: the query for one filetype, its answer and the selection
ListFiles ==
    /\ sd_pc = "loop"
    /\ sd_ft <= Len(sd_filetypes)
    /\ LET query == IF sd_level = "def"
                    THEN [product |-> <<sd_level, sd_filetypes[sd_ft]>>,
                          dates |-> TRUE,
                          start_date |-> sd_times.start_time_str,
                          end_date |-> sd_times.end_time_str]
                    ELSE [product |-> <<sd_level, sd_filetypes[sd_ft]>>,
                          dates |-> FALSE]
       IN IF sd_no_download
          THEN \* sdc_session was never assigned
               /\ sd_pc' = "raised"
               /\ UNCHANGED <<sd_query, sd_http_json, sd_files_in_interval,
                              sd_idx, sd_out_files, sd_local, sd_events, sd_loaded>>
          ELSE \E files \in Listings :
               /\ sd_query' = query
               /\ sd_http_json' = files
               /\ sd_files_in_interval' =
                     FilesToLoad(sd_level, files, sd_times.start_time,
                                 sd_times.endtime_day)
               /\ sd_idx' = 1
               /\ sd_out_files' = <<>>
               /\ sd_local' = NothingKnown
               /\ sd_events' = <<>>
               /\ sd_loaded' = NoLoad
               /\ sd_pc' = "files"
    /\ UNCHANGED <<sd_trange, sd_level, sd_no_download, sd_download_only,
                   sd_times, sd_filetypes, sd_ft>>
    /\ UNCHANGED <<epdVars, lfVars>>

\* lines 98-130: one pass of the loop over files_in_interval
ProcessFile ==
    /\ sd_pc = "files"
    /\ sd_idx <= Len(sd_files_in_interval)
    /\ LET file == sd_files_in_interval[sd_idx]
           out_file == file.file_name
       IN \E found \in (IF sd_local[out_file] = Unknown THEN LocalStates
                        ELSE {sd_local[out_file]}) :
          LET stat == [ev |-> "stat", i |-> sd_idx, found |-> found] IN
          IF UpToDate(found, file)
          THEN /\ sd_out_files' = Append(sd_out_files, out_file)
               /\ sd_local' = [sd_local EXCEPT ![out_file] = found]
               /\ sd_events' = sd_events \o
                     <<stat, [ev |-> "append", i |-> sd_idx]>>
               /\ sd_idx' = sd_idx + 1
               /\ sd_pc' = "files"
          ELSE \E outcome \in DownloadOutcomes :
               LET get == [ev |-> "get", i |-> sd_idx, outcome |-> outcome] IN
               IF outcome = "transfer_failure"
               THEN \* copyfileobj raises; nothing below it runs
                    /\ sd_local' = [sd_local EXCEPT ![out_file] = found]
                    /\ sd_events' = sd_events \o <<stat, get>>
                    /\ sd_pc' = "raised"
                    /\ UNCHANGED <<sd_out_files, sd_idx>>
               ELSE /\ sd_local' = [sd_local EXCEPT ![out_file] = Copied(outcome, file)]
                    /\ sd_out_files' = Append(sd_out_files, out_file)
                    /\ sd_events' = sd_events \o
                          <<stat, get, [ev |-> "copy", i |-> sd_idx],
                            [ev |-> "append", i |-> sd_idx]>>
                    /\ sd_idx' = sd_idx + 1
                    /\ sd_pc' = "files"
    /\ UNCHANGED <<sd_trange, sd_level, sd_no_download, sd_download_only,
                   sd_times, sd_filetypes, sd_ft, sd_query, sd_http_json,
                   sd_files_in_interval, sd_loaded>>
    /\ UNCHANGED <<epdVars, lfVars>>

\* lines 132-141: the end of one pass of the loop over filetypes; after the
\* last filetype the session is closed and the call returns
LoadFiles ==
    /\ sd_pc = "files"
    /\ sd_idx > Len(sd_files_in_interval)
    /\ sd_loaded' =
          IF sd_download_only THEN NoLoad
          ELSE [fn |-> sd_filetypes[sd_ft], files |-> Sorted(sd_out_files)]
    /\ sd_ft' = sd_ft + 1
    /\ sd_pc' = IF sd_ft + 1 > Len(sd_filetypes) THEN "done" ELSE "loop"
    /\ UNCHANGED <<sd_trange, sd_level, sd_no_download, sd_download_only,
                   sd_times, sd_filetypes, sd_query, sd_http_json,
                   sd_files_in_interval, sd_idx, sd_out_files, sd_local,
                   sd_events>>
    /\ UNCHANGED <<epdVars, lfVars>>

\* lines 59, 140-141: there is no filetype to loop over
StateDataReturn ==
    /\ sd_pc = "loop"
    /\ sd_ft > Len(sd_filetypes)
    /\ sd_pc' = "done"
    /\ UNCHANGED <<sd_trange, sd_level, sd_no_download, sd_download_only,
                   sd_times, sd_filetypes, sd_ft, sd_query, sd_http_json,
                   sd_files_in_interval, sd_idx, sd_out_files, sd_local,
                   sd_events, sd_loaded>>
    /\ UNCHANGED <<epdVars, lfVars>>

SdInit ==
    /\ sd_pc = "idle"
    /\ sd_trange = <<[day |-> 0, sec |-> 0], [day |-> 0, sec |-> 0]>>
    /\ sd_level = "def"
    /\ sd_no_download = FALSE
    /\ sd_download_only = FALSE
    /\ sd_times = Times(<<[day |-> 0, sec |-> 0], [day |-> 0, sec |-> 0]>>)
    /\ sd_filetypes = <<>>
    /\ sd_ft = 1
    /\ sd_query = NoQuery
    /\ sd_http_json = <<>>
    /\ sd_files_in_interval = <<>>
    /\ sd_idx = 1
    /\ sd_out_files = <<>>
    /\ sd_local = NothingKnown
    /\ sd_events = <<>>
    /\ sd_loaded = NoLoad

Init == EpdInit /\ LfInit /\ SdInit

NextEpd == ElfinLoadEpd \/ ElfinLoadEpdAgain

NextLocalFiles == MmsGetLocalFiles

NextStateData ==
    MmsGetStateData \/ ListFiles \/ ProcessFile \/ LoadFiles \/ StateDataReturn

Next == NextEpd \/ NextLocalFiles \/ NextStateData

SpecEpd == Init /\ [][NextEpd]_vars

SpecLocalFiles == Init /\ [][NextLocalFiles]_vars

SpecStateData == Init /\ [][NextStateData]_vars

Spec == Init /\ [][Next]_vars

(***************************************************************************)
(*                    Properties of elfin_load_epd                         *)
(***************************************************************************)
L1Types == {"raw", "cps", "nflux", "eflux"}

\* C2: a postprocessing routine is invoked only when notplot is False,
\* downloadonly is False and load returned a non-empty list; in every other
\* case the call returns the value load returned, unchanged, and raises
\* nothing.
C2_PostprocessingOnlyOnLoadedData ==
    e_pc # "idle" =>
        /\ e_post # NoPost =>
              ~e_notplot /\ ~e_downloadonly /\ e_tvars # <<>>
        /\ (e_notplot \/ e_downloadonly \/ e_tvars = <<>>) =>
              /\ e_post = NoPost
              /\ e_result = [kind |-> "return", from |-> "load", value |-> e_tvars]

\* a call with notplot set and a non-empty load result returned that result
C2_Witness ==
    /\ e_pc = "done"
    /\ e_notplot /\ ~e_downloadonly /\ e_tvars # <<>>
    /\ e_result = [kind |-> "return", from |-> "load", value |-> e_tvars]

\* C3: at level l1 epd_l1_postprocessing is called with a type_ among raw,
\* cps, nflux, eflux and with that type's unit; a requested type_ of the set
\* is passed unchanged, any other becomes nflux, and the unit lookup never
\* fails.
C3_L1TypeAndUnit ==
    (e_pc # "idle" /\ e_level = "l1"
        /\ ~e_notplot /\ ~e_downloadonly /\ e_tvars # <<>>) =>
        /\ e_result.kind = "return"
        /\ e_post.fn = "epd_l1_postprocessing"
        /\ e_post.type_ \in L1Types
        /\ e_post.unit = (CASE e_post.type_ = "raw"   -> "counts/sector"
                            [] e_post.type_ = "cps"   -> "counts/s"
                            [] e_post.type_ = "nflux" -> "#/(s-cm$^2$-str-MeV)"
                            [] e_post.type_ = "eflux" -> "keV/(s-cm$^2$-str-MeV)")
        /\ e_post.type_ = (IF e_type \in L1Types THEN e_type ELSE "nflux")

\* a type outside the table reached epd_l1_postprocessing as nflux
C3_Witness ==
    /\ e_pc = "done" /\ e_level = "l1" /\ e_type = "counts"
    /\ e_post.fn = "epd_l1_postprocessing"
    /\ e_post.type_ = "nflux"

\* C4: at level l2 the full-spin spectrogram (res='fs') is requested if and
\* only if fullspin is True; every other value, None and 0 included, requests
\* the half-spin spectrogram (res='hs').
C4_FullspinOnlyIfTrue ==
    e_post.fn = "epd_l2_postprocessing" =>
        (e_post.res = "fs" <=> e_fullspin = "True")

\* C5, as stated: a call with a level other than l1 or l2 ends with a
\* ValueError for every combination of notplot, downloadonly and load result.
C5_UnknownLevelAlwaysRaises ==
    (e_pc # "idle" /\ e_level \notin {"l1", "l2"}) =>
        e_result = [kind |-> "raise", exc |-> "ValueError"]

\* C5, amended: a call with a level other than l1 or l2 never invokes a
\* postprocessing routine; it ends with a ValueError when notplot and
\* downloadonly are False and load returned a non-empty list, and otherwise
\* returns the value load returned.
C5_UnknownLevelRaisesAfterLoad ==
    (e_pc # "idle" /\ e_level \notin {"l1", "l2"}) =>
        /\ e_post = NoPost
        /\ e_result =
              IF ~e_notplot /\ ~e_downloadonly /\ e_tvars # <<>>
              THEN [kind |-> "raise", exc |-> "ValueError"]
              ELSE [kind |-> "return", from |-> "load", value |-> e_tvars]

\* a call with an unknown level and loaded data ended with the ValueError
C5_Witness ==
    /\ e_pc = "done" /\ e_level = "l3"
    /\ ~e_notplot /\ ~e_downloadonly /\ e_tvars # <<>>
    /\ e_result = [kind |-> "raise", exc |-> "ValueError"]

\* C10: two calls at level l2 with the same parameters and the same list
\* returned by load pass epd_l2_postprocessing the same variable names in the
\* same order.
C10_SameInputSameOrder ==
    (e_pc = "again" /\ e_post.fn = "epd_l2_postprocessing") =>
        e_post.tvars_input = e_prev.tvars_input

(***************************************************************************)
(*                  Properties of mms_get_local_files                      *)
(***************************************************************************)
\* C6: every path returned belongs to a file whose name-embedded timestamp t
\* satisfies start-of-day(trange[0]) <= t <= trange[1] - 1 second.
C6_ReturnedFilesInWindow ==
    lf_pc = "done" =>
        \A i \in 1..Len(lf_local_files) :
            LET stamp == lf_local_files[i].stamp
                t == stamp[1] * 86400 + (IF Len(stamp) = 2 THEN stamp[2] ELSE 0)
            IN /\ lf_trange[1].day * 86400 <= t
               /\ t <= lf_trange[2].day * 86400 + lf_trange[2].sec - 1

\* a file stamped exactly one second before trange[1] was returned
C6_Witness ==
    /\ lf_pc = "done"
    /\ \E i \in 1..Len(lf_local_files) :
          ParseStamp(lf_local_files[i].stamp) = Parse(lf_trange[2]) - 1

(***************************************************************************)
(*                  Properties of mms_get_state_data                       *)
(***************************************************************************)
\* the positions of the events of one kind logged for file i
EventsOf(kind, i) ==
    {k \in 1..Len(sd_events) : sd_events[k].ev = kind /\ sd_events[k].i = i}

\* the only element of a one-element set
TheOne(S) == CHOOSE x \in S : TRUE

\* C1: for every file of the selected listing: if a file of that name exists
\* in the output directory and its size equals the listed file_size, no
\* download request is issued for it and its path is still among the files to
\* load; otherwise exactly one download request is issued for it and the
\* local file is written before its path is added to the files to load.
C1_DownloadUnlessUpToDate ==
    sd_query # NoQuery =>
        \A i \in 1..Len(sd_files_in_interval) :
            i < sd_idx =>
                LET file == sd_files_in_interval[i]
                    stats == EventsOf("stat", i)
                    gets == EventsOf("get", i)
                    copies == EventsOf("copy", i)
                    appends == EventsOf("append", i)
                IN /\ Cardinality(stats) = 1
                   /\ Cardinality(appends) = 1
                   /\ sd_out_files[i] = file.file_name
                   /\ LET found == sd_events[TheOne(stats)].found IN
                      IF found.exists /\ found.size = file.file_size
                      THEN /\ gets = {}
                           /\ copies = {}
                           /\ sd_local[file.file_name] = found
                      ELSE /\ Cardinality(gets) = 1
                           /\ Cardinality(copies) = 1
                           /\ TheOne(gets) < TheOne(copies)
                           /\ TheOne(copies) < TheOne(appends)
                           /\ sd_local[file.file_name].body # "earlier"
                           /\ sd_local[file.file_name].exists

\* of two files of one listing, the first was up to date and was not
\* requested, the second had another size locally and was downloaded
C1_Witness ==
    /\ sd_pc = "files" /\ sd_idx = 3
    /\ EventsOf("get", 1) = {} /\ EventsOf("append", 1) # {}
    /\ EventsOf("get", 2) # {}
    /\ sd_events[TheOne(EventsOf("stat", 2))].found.exists
    /\ sd_local[sd_files_in_interval[2].file_name].body = "download"

\* C7: the start date sent to the server is the calendar day of trange[0]
\* minus 24 hours; the end date is the calendar day of trange[1] when
\* trange[1] is at 00:00:00 and the following day otherwise, and is never
\* earlier than the day of trange[1].
C7_WidenedDateRange ==
    sd_pc # "idle" =>
        /\ sd_times.start_time_str = sd_trange[1].day - 1
        /\ sd_times.end_time_str =
              IF sd_trange[2].sec = 0 THEN sd_trange[2].day
              ELSE sd_trange[2].day + 1
        /\ sd_times.end_time_str >= sd_trange[2].day
        /\ (sd_query # NoQuery /\ sd_query.dates) =>
              /\ sd_query.start_date = sd_trange[1].day - 1
              /\ sd_query.end_date =
                    IF sd_trange[2].sec = 0 THEN sd_trange[2].day
                    ELSE sd_trange[2].day + 1

\* a query with dates was sent for a range that ends exactly at 00:00:00
\* and starts later than 00:00:00
C7_Witness ==
    /\ sd_query # NoQuery /\ sd_query.dates
    /\ sd_trange[2].sec = 0 /\ sd_trange[1].sec # 0
    /\ sd_query.end_date = sd_trange[2].day

\* C8: a downloaded file is copied into the data directory and added to the
\* files to load only if its download was successful; a failed download
\* leaves the local file of that name unchanged and adds nothing.
C8_CopyOnlyIfDownloadSucceeded ==
    \A k \in 1..Len(sd_events) :
        (sd_events[k].ev = "get" /\ sd_events[k].outcome # "ok") =>
            LET i == sd_events[k].i IN
            /\ EventsOf("copy", i) = {}
            /\ EventsOf("append", i) = {}
            /\ sd_local[sd_files_in_interval[i].file_name] =
                  sd_events[TheOne(EventsOf("stat", i))].found

\* a listed file overlaps the requested range: it neither starts after the
\* end of the range nor ends before the widened start
Overlaps(file) ==
    /\ ~(file.start_date * 86400 > sd_trange[2].day * 86400 + sd_trange[2].sec)
    /\ ~(file.end_date * 86400 < sd_trange[1].day * 86400 + sd_trange[1].sec - 86400)

\* C9, as stated: for a level other than 'def' the selected files are exactly
\* the listed files that overlap the range; for 'def' every listed file is
\* selected.
C9_SelectsEveryOverlappingFile ==
    sd_query # NoQuery =>
        sd_files_in_interval =
            IF sd_level # "def" THEN SelectSeq(sd_http_json, Overlaps)
            ELSE sd_http_json

\* C9, amended: for a level other than 'def' at most one file is selected,
\* the first file of the listing that overlaps the range, and none when no
\* listed file overlaps it; for 'def' every listed file is selected.
C9_SelectsFirstOverlappingFile ==
    sd_query # NoQuery =>
        sd_files_in_interval =
            IF sd_level # "def"
            THEN LET over == {i \in 1..Len(sd_http_json) : Overlaps(sd_http_json[i])}
                 IN IF over = {} THEN <<>>
                    ELSE <<sd_http_json[CHOOSE i \in over : \A j \in over : i <= j]>>
            ELSE sd_http_json

\* at a level other than 'def' the listing held a file starting after the
\* range and then a file overlapping it, and the second was selected
C9_Witness ==
    /\ sd_query # NoQuery /\ sd_level # "def"
    /\ Len(sd_http_json) = 2
    /\ sd_http_json[1].start_date > sd_trange[2].day
    /\ sd_files_in_interval = <<sd_http_json[2]>>

=============================================================================
